---- MODULE Spec2Model ----
(***************************************************************************)
(* Connection handling and message dispatch of nano (handler.go): the      *)
(* handler registry, the per-connection reader and its protocol state      *)
(* machine, the message router and the dispatch loop.                      *)
(***************************************************************************)
EXTENDS Integers, Sequences, FiniteSets, TLC

\* ------------------------------------------------------------------ bounds
\* capacity of chLocalProcess / chCloseSession (1024 in the program, scaled)
packetBacklog == 1
\* packets the clients send in all (SpecConn)
MaxPackets == 2
\* packets the clients send in all (Spec)
MaxLoopPackets == 1
\* packets one conn.Read / Decode may return at once
MaxBatch == 2
\* timer and ticker notifications the environment raises in all
MaxAdmin == 1
\* frames one write worker sends in all
MaxFrames == 2

\* ------------------------------------------------------- agent status codes
statusStart == 1
statusHandshake == 2
statusWorking == 3
statusClosed == 4

\* the largest value of the alias type (uint16, line 199)
MaxUint16 == 65535

Conns == {"c1"}
MsgIds == {1, 2}
TimerIds == {1}
\* env.callbacks: the session-close callbacks, in registration order
Callbacks == <<"cb1", "cb2">>

VARIABLES
    \* handlerService / env registry
    services,       \* h.services: service name -> set of method names
    handlers,       \* h.handlers: full route name -> handler descriptor
    dict,           \* env.dict: full route name -> numeric alias
    dictMore,       \* further entries of env.dict, of components registered before
                    \* the ones named here: entry k of them holds the alias k
    codecDict,      \* the dictionary last handed to message.SetDictionary
    regResult,      \* outcome of the last register call
    regCall,        \* the component of the last register call
    \* environment configuration
    authEnabled,    \* env.authFunc != nil
    \* per connection (agent + reader goroutine)
    status,         \* agent.state
    sessAuth,       \* agent.session.Auth
    lastAt,         \* agent.lastAt (logical time: index of the stamping packet)
    lastMid,        \* agent.lastMid
    connOpen,       \* the transport is open (conn.Read can still deliver)
    rpc,            \* position of the reader goroutine in handle
    pending,        \* packets decoded by the last Read and not yet processed
    cur,            \* the packet last handed to processPacket, with its arrival index
    sending,        \* the unhandledMessage held by a send at line 359
    hrdWrites,      \* handshake-response frames written to the transport
    kicks,          \* kick frames sent by agent.Kick
    arrived,        \* packets read from the transport so far
    lastAccess,     \* agent.session.LastHandlerAccessTime (logical time)
    established,    \* connections that had completed the handshake initially
    \* per connection: the write worker (agent.write, started at line 212)
    writer,         \* position of the write goroutine
    wframes,        \* frames the write worker has taken to write
    \* dispatch loop and channels
    chLocalProcess, \* buffered WorkItems
    chLocalOpen,    \* chLocalProcess has not been closed
    chCloseSession, \* buffered closed sessions
    chCloseOpen,    \* chCloseSession has not been closed
    notified,       \* sessions already posted on chCloseSession
    die,            \* env.die has been closed
    dispatching,    \* the dispatch goroutine is inside its loop
    tick,           \* globalTicker.C holds a tick
    tickerOn,       \* globalTicker has not been stopped
    chCreatedTimer, chClosingTimer, timers,
    admin,          \* timer and ticker notifications raised so far
    budget,         \* packets the clients may still send
    \* handler executions
    running,        \* WorkItems whose pcall goroutine has not returned
    executed,       \* WorkItems handed to pcall (history)
    skipped,        \* WorkItems dequeued for a Closed agent (history)
    faults,         \* WorkItems whose handler raised a fault (history)
    responses,      \* replies sent through a response function (history)
    cbCalls,        \* close-callback invocations <<session, callback>> (history)
    enqueued,       \* WorkItems that entered chLocalProcess (history)
    produced,       \* WorkItems built by processMessage (history)
    rejected,       \* connections whose handshake the auth callback rejected
    acked,          \* connections that have had a HandshakeAck processed
    dropped,        \* <<connection, arrival index>> of the messages the router dropped
    atSignal,       \* the WorkItems queued when env.die was closed
    crash           \* a runtime fault outside any recovery boundary

regVars == <<services, handlers, dict, dictMore, codecDict, regResult, regCall>>
connVars == <<status, sessAuth, lastAt, lastMid, connOpen, rpc, pending, cur, sending,
              hrdWrites, kicks, arrived, lastAccess>>
chanVars == <<chLocalProcess, chLocalOpen, chCloseSession, chCloseOpen, notified>>
dispVars == <<die, dispatching, tick, tickerOn, chCreatedTimer, chClosingTimer,
              timers, admin>>
loopVars == <<chanVars, dispVars, budget>>
histVars == <<acked, dropped, atSignal>>
execVars == <<running, executed, skipped, faults, responses, cbCalls, enqueued,
              produced, rejected, histVars>>
cfgVars == <<authEnabled, established>>
writeVars == <<writer, wframes>>
vars == <<regVars, cfgVars, writeVars, connVars, loopVars, execVars, crash>>

\* ---------------------------------------------------------------- registry
ServiceNames == {"room", "chat"}
MethodNames == {"join", "raw"}
\* a component as register sees it: the service name NewService gives it, the
\* handler methods ExtractHandler finds, and whether ExtractHandler succeeds
Components == [name : ServiceNames, methods : SUBSET MethodNames, extractable : BOOLEAN]

\* fmt.Sprintf("%s.%s", s.Name, name)
fullName(service, method) == service \o "." \o method

\* the descriptor ExtractHandler builds for a method
HandlerOf(service, method) ==
    [service |-> service, method |-> method, IsRawArg |-> (method = "raw")]

\* len(env.dict)
dictLen(reg) == reg.more + Cardinality(DOMAIN reg.dict)

\* uint16(len(env.dict)) + 1, for len(env.dict) = n
NextAlias(n) == ((n % (MaxUint16 + 1)) + 1) % (MaxUint16 + 1)

\* all enumeration orders of a finite set (Go map iteration order is unspecified)
Orders(S) == {o \in [1..Cardinality(S) -> S] : \A x \in S : \E i \in DOMAIN o : o[i] = x}

RECURSIVE AddHandlers(_, _, _, _)
\* the loop of register over s.Handlers in the order `order`, from index i
AddHandlers(reg, service, order, i) ==
    IF i > Len(order) THEN reg
    ELSE LET fn == fullName(service, order[i])
             d2 == [r \in DOMAIN reg.dict \cup {fn} |->
                       IF r = fn THEN NextAlias(dictLen(reg)) ELSE reg.dict[r]]
             h2 == [r \in DOMAIN reg.handlers \cup {fn} |->
                       IF r = fn THEN HandlerOf(service, order[i]) ELSE reg.handlers[r]]
         IN AddHandlers([reg EXCEPT !.dict = d2, !.handlers = h2], service, order, i + 1)

\* a register call that passed the duplicate check
registerNew(reg, comp, order) ==
    IF ~comp.extractable
    THEN [reg EXCEPT !.result = "extract-error"]
    ELSE LET r1 == [reg EXCEPT !.services =
                       [n \in DOMAIN reg.services \cup {comp.name} |->
                           IF n = comp.name THEN comp.methods ELSE reg.services[n]]]
             r2 == AddHandlers(r1, comp.name, order, 1)
         IN [r2 EXCEPT !.codec = r2.dict, !.result = "ok"]

\* register without the check of lines 186-188
registerUnchecked(reg, comp, order) == registerNew(reg, comp, order)

\* handlerService.register
register(reg, comp, order) ==
    IF comp.name \in DOMAIN reg.services
    THEN [reg EXCEPT !.result = "duplicate-service"]
    ELSE registerNew(reg, comp, order)

NoComponent == [name |-> "", methods |-> {}, extractable |-> FALSE]
EmptyMap == [x \in {} |-> 0]
\* newHandlerService and the empty env.dict
EmptyRegistry ==
    [services |-> EmptyMap, handlers |-> EmptyMap, dict |-> EmptyMap, more |-> 0,
     codec |-> EmptyMap, result |-> "none"]

Registry ==
    [services |-> services, handlers |-> handlers, dict |-> dict, more |-> dictMore,
     codec |-> codecDict, result |-> regResult]

SetRegistry(reg) ==
    /\ services' = reg.services
    /\ handlers' = reg.handlers
    /\ dict' = reg.dict
    /\ dictMore' = reg.more
    /\ codecDict' = reg.codec
    /\ regResult' = reg.result

\* the registry the server runs with: one component registered at startup
StartupRegistry ==
    register(EmptyRegistry,
             [name |-> "room", methods |-> {"join", "raw"}, extractable |-> TRUE],
             <<"join", "raw">>)

\* ------------------------------------------------------ packets and messages
NoMsg == [decodable |-> FALSE, mtype |-> "Notify", id |-> 0, route |-> "", payload |-> ""]
Msg(t, i, r, pl) == [decodable |-> TRUE, mtype |-> t, id |-> i, route |-> r, payload |-> pl]
Pkt(t, tok, m) == [type |-> t, token |-> tok, msg |-> m]

\* the Data packets a client sends: requests and notifies for a registered
\* route, and the messages the router refuses
DataPackets ==
    {Pkt("Data", "", Msg("Request", i, "room.join", "ok")) : i \in MsgIds} \cup
    {Pkt("Data", "", Msg("Notify", 0, "room.join", "ok")),
     Pkt("Data", "", Msg("Request", 1, "room.nope", "ok")),
     Pkt("Data", "", Msg("Request", 1, "room.join", "badpipe")),
     Pkt("Data", "", Msg("Request", 1, "room.join", "baddeser")),
     Pkt("Data", "", Msg("Notify", 0, "room.raw", "baddeser")),
     Pkt("Data", "", NoMsg)}

\* the packets the decoder can hand to processPacket; the token only matters
\* when an auth callback is configured
Packets(auth) ==
    {Pkt("Handshake", "good", NoMsg), Pkt("HandshakeAck", "", NoMsg),
     Pkt("Heartbeat", "", NoMsg)} \cup
    (IF auth THEN {Pkt("Handshake", "bad", NoMsg)} ELSE {}) \cup DataPackets

\* env.authFunc: TRUE when it returns an error payload
authFunc(p) == p.token # "good"

\* Pipeline.Inbound.handlers: one stage, which fails on a payload it cannot
\* transform and passes every other payload on
Pipeline == <<"stage">>
stageFails(stage, payload) == payload = "badpipe"

RECURSIVE runPipeline(_, _)
\* lines 325-333: TRUE when every stage from index i on accepts the payload
runPipeline(i, payload) ==
    IF i > Len(Pipeline) THEN TRUE
    ELSE IF stageFails(Pipeline[i], payload) THEN FALSE
    ELSE runPipeline(i + 1, payload)

\* serializer.Unmarshal(payload, data) succeeds
unmarshalOK(payload) == payload # "baddeser"

\* ------------------------------------------------------------------- agent
Agent(c) ==
    [status |-> status[c], auth |-> sessAuth[c], open |-> connOpen[c],
     hrdWrites |-> hrdWrites[c], kicks |-> kicks[c]]

\* agent.Close: the phase becomes Closed and the transport is closed
Close(a) ==
    IF a.status = statusClosed THEN a
    ELSE [a EXCEPT !.status = statusClosed, !.open = FALSE]

\* agent.Kick: the error payload is sent and the connection is closed
Kick(a) == Close([a EXCEPT !.kicks = IF a.open THEN @ + 1 ELSE @])

\* agent.setStatus
setStatus(a, st) == [a EXCEPT !.status = st]

\* agent.conn.Write(hrd): fails on a closed transport
writeHrd(a) ==
    IF a.open THEN [a |-> [a EXCEPT !.hrdWrites = @ + 1], err |-> FALSE]
    ELSE [a |-> a, err |-> TRUE]

\* processPacket, case packet.Handshake (lines 258-280)
onHandshake(a, p, auth) ==
    IF auth
    THEN IF authFunc(p)
         THEN [a |-> Kick(a), err |-> FALSE]
         ELSE LET w == writeHrd(a)
              IN IF w.err THEN w
                 ELSE [a |-> setStatus([w.a EXCEPT !.auth = TRUE], statusHandshake),
                       err |-> FALSE]
    ELSE writeHrd(a)

\* processPacket, case packet.HandshakeAck (lines 282-286)
onHandshakeAck(a) == [a |-> setStatus(a, statusWorking), err |-> FALSE]

\* processPacket, case packet.Data up to the call of processMessage
\* (lines 288-298): err, or route = TRUE when the message goes to processMessage
onData(a, p) ==
    IF a.status < statusWorking THEN [err |-> TRUE, route |-> FALSE]
    ELSE IF ~p.msg.decodable THEN [err |-> TRUE, route |-> FALSE]
    ELSE [err |-> FALSE, route |-> TRUE]

\* lines 309-315
responseId(msg) == IF msg.mtype = "Request" THEN msg.id ELSE 0

Arg(k, m) == [kind |-> k, mid |-> m]
\* lines 352-358: the argument list; the response function closes over lastMid
buildArgs(msg, mid) ==
    LET base == <<Arg("receiver", 0), Arg("srv", 0), Arg("data", 0)>>
    IN IF msg.mtype = "Request" THEN Append(base, Arg("resFunc", mid)) ELSE base

\* processMessage without the return of line 343
processMessageIgnoringUnmarshal(hs, c, msg, seq) ==
    LET mid == responseId(msg)
        item == [agent |-> c, lastMid |-> mid, handler |-> msg.route,
                 args |-> buildArgs(msg, mid), seq |-> seq, from |-> msg]
    IN IF msg.route \notin DOMAIN hs THEN [enqueue |-> FALSE, item |-> item]
       ELSE IF ~runPipeline(1, msg.payload) THEN [enqueue |-> FALSE, item |-> item]
       ELSE [enqueue |-> TRUE, item |-> item]

\* processMessage up to the send (lines 308-358): whether a WorkItem is
\* built, and the WorkItem. seq (the arrival index of the packet) and from
\* (the message) only identify the WorkItem in the properties.
processMessage(hs, c, msg, seq) ==
    LET mid == responseId(msg)
        item == [agent |-> c, lastMid |-> mid, handler |-> msg.route,
                 args |-> buildArgs(msg, mid), seq |-> seq, from |-> msg]
    IN IF msg.route \notin DOMAIN hs THEN [enqueue |-> FALSE, item |-> item]
       ELSE IF ~runPipeline(1, msg.payload) THEN [enqueue |-> FALSE, item |-> item]
       ELSE IF ~hs[msg.route].IsRawArg /\ ~unmarshalOK(msg.payload)
            THEN [enqueue |-> FALSE, item |-> item]
       ELSE [enqueue |-> TRUE, item |-> item]

NoItem == [agent |-> "", lastMid |-> 0, handler |-> "", args |-> <<>>, seq |-> 0,
           from |-> NoMsg]

\* onHeartbeat as a handler that answers every Heartbeat with a frame
onHeartbeatReplying(a) == writeHrd(a)

\* processPacket, case packet.Heartbeat (lines 300-301): nothing is done
onHeartbeat(a) == [a |-> a, err |-> FALSE]

\* processPacket (lines 256-306) on the agent a and the packet p: the agent
\* afterwards, whether an error is returned, and the WorkItem when the
\* packet's message reaches the send of line 359
processPacket(a, p, auth, hs, c, seq) ==
    CASE p.type = "Handshake" ->
            LET r == onHandshake(a, p, auth)
            IN [a |-> r.a, err |-> r.err, enqueue |-> FALSE, item |-> NoItem]
      [] p.type = "HandshakeAck" ->
            LET r == onHandshakeAck(a)
            IN [a |-> r.a, err |-> r.err, enqueue |-> FALSE, item |-> NoItem]
      [] p.type = "Data" ->
            LET d == onData(a, p)
                m == processMessage(hs, c, p.msg, seq)
            IN IF d.route
               THEN [a |-> a, err |-> FALSE, enqueue |-> m.enqueue, item |-> m.item]
               ELSE [a |-> a, err |-> d.err, enqueue |-> FALSE, item |-> NoItem]
      [] p.type = "Heartbeat" ->
            LET r == onHeartbeat(a)
            IN [a |-> r.a, err |-> r.err, enqueue |-> FALSE, item |-> NoItem]
      [] OTHER -> [a |-> a, err |-> FALSE, enqueue |-> FALSE, item |-> NoItem]

\* --------------------------------------------------------------- channels
\* chanSend as a send that gives up on a full channel (select with default)
chanSendOrDrop(q, x) ==
    IF Len(q) < packetBacklog THEN [ok |-> TRUE, q |-> Append(q, x)]
    ELSE [ok |-> TRUE, q |-> q]

\* a send on a buffered channel of capacity packetBacklog: it goes through
\* when there is room and blocks otherwise
chanSend(q, x) ==
    IF Len(q) < packetBacklog THEN [ok |-> TRUE, q |-> Append(q, x)]
    ELSE [ok |-> FALSE, q |-> q]

\* ------------------------------------------------------------------- state
Alive == crash = "none"
NoPkt == [pkt |-> Pkt("none", "", NoMsg), seq |-> 0]

SetAgent(c, a) ==
    /\ status' = [status EXCEPT ![c] = a.status]
    /\ sessAuth' = [sessAuth EXCEPT ![c] = a.auth]
    /\ connOpen' = [connOpen EXCEPT ![c] = a.open]
    /\ hrdWrites' = [hrdWrites EXCEPT ![c] = a.hrdWrites]
    /\ kicks' = [kicks EXCEPT ![c] = a.kicks]

\* a connection just accepted (newAgent), or one whose client has completed
\* the handshake: Handshake accepted, then HandshakeAck
InitConns ==
    /\ \E est \in [Conns -> BOOLEAN] :
          LET fresh == [status |-> statusStart, auth |-> FALSE, open |-> TRUE,
                        hrdWrites |-> 0, kicks |-> 0]
              hs == onHandshake(fresh, Pkt("Handshake", "good", NoMsg), authEnabled).a
              ack == onHandshakeAck(hs).a
              a == [c \in Conns |-> IF est[c] THEN ack ELSE fresh]
          IN /\ status = [c \in Conns |-> a[c].status]
             /\ sessAuth = [c \in Conns |-> a[c].auth]
             /\ connOpen = [c \in Conns |-> a[c].open]
             /\ hrdWrites = [c \in Conns |-> a[c].hrdWrites]
             /\ kicks = [c \in Conns |-> a[c].kicks]
             /\ established = {c \in Conns : est[c]}
    /\ lastAt = [c \in Conns |-> 0]
    /\ lastMid = [c \in Conns |-> 0]
    /\ rpc = [c \in Conns |-> "run"]
    /\ pending = [c \in Conns |-> 0]
    /\ cur = [c \in Conns |-> NoPkt]
    /\ sending = [c \in Conns |-> NoItem]
    /\ arrived = [c \in Conns |-> 0]
    /\ lastAccess = [c \in Conns |-> 0]
    /\ writer = [c \in Conns |-> "idle"]
    /\ wframes = [c \in Conns |-> 0]

InitLoop ==
    /\ chLocalOpen = TRUE
    /\ chCloseSession = <<>> /\ chCloseOpen = TRUE
    /\ notified = {}
    /\ die = FALSE /\ dispatching = TRUE
    /\ tick = FALSE /\ tickerOn = TRUE
    /\ chCreatedTimer = <<>> /\ chClosingTimer = <<>> /\ timers = {}
    /\ admin = 0

InitExec ==
    /\ running = {} /\ executed = {} /\ skipped = {} /\ faults = {}
    /\ responses = {} /\ cbCalls = {}
    /\ rejected = {} /\ acked = established /\ dropped = {} /\ atSignal = {}
    /\ crash = "none"

InitServer ==
    /\ services = StartupRegistry.services
    /\ handlers = StartupRegistry.handlers
    /\ dict = StartupRegistry.dict
    /\ dictMore = StartupRegistry.more
    /\ codecDict = StartupRegistry.codec
    /\ regResult = StartupRegistry.result
    /\ regCall = NoComponent
    /\ authEnabled \in BOOLEAN
    /\ InitConns /\ InitLoop /\ InitExec

\* the pending-work channel holds the WorkItems q, built and sent before
InitQueue(q) ==
    /\ chLocalProcess = q
    /\ enqueued = {q[i] : i \in DOMAIN q}
    /\ produced = {q[i] : i \in DOMAIN q}

\* the server after startup: the component registered, the dispatch loop
\* started, the connections accepted and their readers about to read
Init == InitServer /\ budget = MaxLoopPackets /\ InitQueue(<<>>)

\* the same server, with clients that send more packets
InitConn == InitServer /\ budget = MaxPackets /\ InitQueue(<<>>)

\* ------------------------------------------------------ connection reader
\* handle, lines 229-244: conn.Read and Decode deliver a batch of n packets
Read(c) ==
    /\ Alive /\ rpc[c] = "run" /\ pending[c] = 0 /\ connOpen[c]
    /\ \E n \in 1..MaxBatch :
          /\ n <= budget
          /\ budget' = budget - n
          /\ pending' = [pending EXCEPT ![c] = n]
          /\ arrived' = [arrived EXCEPT ![c] = @ + n]
    /\ UNCHANGED <<regVars, cfgVars, writeVars, status, sessAuth, lastAt, lastMid, connOpen,
                   rpc, cur, sending, hrdWrites, kicks, lastAccess, chanVars,
                   dispVars, execVars, crash>>

\* handle returns: the deferred agent.Close runs (lines 219-224)
ReaderExit(c, a) ==
    /\ SetAgent(c, Close(a))
    /\ rpc' = [rpc EXCEPT ![c] = "exited"]
    /\ pending' = [pending EXCEPT ![c] = 0]

\* handle, lines 229-240: conn.Read fails (the transport is closed or the
\* peer is gone) or Decode fails, and handle returns
ReadError(c) ==
    /\ Alive /\ rpc[c] = "run" /\ pending[c] = 0
    /\ ReaderExit(c, Agent(c))
    /\ UNCHANGED <<regVars, cfgVars, writeVars, lastAt, lastMid, cur, sending, arrived,
                   lastAccess, loopVars, execVars, crash>>

\* handle, lines 247-252: the next packet of the batch goes through
\* processPacket, up to its return or to the send of line 359
ProcessPacket(c) ==
    /\ Alive /\ rpc[c] = "run" /\ pending[c] > 0
    /\ \E p \in Packets(authEnabled) :
          LET seq == arrived[c] - pending[c] + 1
              r == processPacket(Agent(c), p, authEnabled, handlers, c, seq)
          IN /\ cur' = [cur EXCEPT ![c] = [pkt |-> p, seq |-> seq]]
             /\ rejected' = IF p.type = "Handshake" /\ authEnabled /\ authFunc(p)
                            THEN rejected \cup {c} ELSE rejected
             /\ acked' = IF p.type = "HandshakeAck" THEN acked \cup {c} ELSE acked
             /\ dropped' = IF p.type = "Data" /\ ~r.err /\ ~r.enqueue
                           THEN dropped \cup {<<c, seq>>} ELSE dropped
             /\ IF r.err
                THEN /\ ReaderExit(c, r.a)
                     /\ UNCHANGED <<lastAt, sending, lastAccess, produced>>
                ELSE IF r.enqueue
                THEN /\ SetAgent(c, r.a)
                     /\ rpc' = [rpc EXCEPT ![c] = "send"]
                     /\ sending' = [sending EXCEPT ![c] = r.item]
                     /\ produced' = produced \cup {r.item}
                     /\ lastAccess' = [lastAccess EXCEPT ![c] = seq]
                     /\ pending' = [pending EXCEPT ![c] = @ - 1]
                     /\ UNCHANGED lastAt
                ELSE /\ SetAgent(c, r.a)
                     /\ lastAt' = [lastAt EXCEPT ![c] = seq]
                     /\ pending' = [pending EXCEPT ![c] = @ - 1]
                     /\ UNCHANGED <<rpc, sending, lastAccess, produced>>
    /\ UNCHANGED <<regVars, cfgVars, writeVars, lastMid, arrived, loopVars, running,
                   executed, skipped, faults, responses, cbCalls, enqueued, atSignal,
                   crash>>

\* processMessage line 359 completes, then processPacket lines 304-305
Enqueue(c) ==
    /\ Alive /\ rpc[c] = "send" /\ chLocalOpen
    /\ LET s == chanSend(chLocalProcess, sending[c])
       IN /\ s.ok
          /\ chLocalProcess' = s.q
    /\ enqueued' = enqueued \cup {sending[c]}
    /\ lastAt' = [lastAt EXCEPT ![c] = sending[c].seq]
    /\ sending' = [sending EXCEPT ![c] = NoItem]
    /\ rpc' = [rpc EXCEPT ![c] = "run"]
    /\ UNCHANGED <<regVars, cfgVars, writeVars, status, sessAuth, lastMid, connOpen, pending,
                   cur, hrdWrites, kicks, arrived, lastAccess, chLocalOpen,
                   chCloseSession, chCloseOpen, notified, die, dispatching, tick,
                   tickerOn, chCreatedTimer, chClosingTimer, timers, admin, running,
                   executed, skipped, faults, responses, cbCalls, produced, rejected, histVars,
                   crash, budget>>

\* processMessage line 359 on the channel dispatch has closed: the send
\* panics in the reader goroutine, which has no recover
SendOnClosed(c) ==
    /\ Alive /\ rpc[c] = "send" /\ ~chLocalOpen
    /\ crash' = "send on closed channel"
    /\ rpc' = [rpc EXCEPT ![c] = "panicked"]
    /\ UNCHANGED <<regVars, cfgVars, writeVars, status, sessAuth, lastAt, lastMid, connOpen,
                   pending, cur, sending, hrdWrites, kicks, arrived, lastAccess,
                   loopVars, execVars>>

\* agent.Close called from outside the reader (the session owner or the
\* write worker closes the connection)
ExplicitClose(c) ==
    /\ Alive /\ status[c] # statusClosed /\ rpc[c] \in {"run", "send"}
    /\ SetAgent(c, Close(Agent(c)))
    /\ UNCHANGED <<regVars, cfgVars, writeVars, lastAt, lastMid, rpc, pending, cur, sending,
                   arrived, lastAccess, loopVars, execVars, crash>>

\* ------------------------------------------------------------ write worker
\* agent.write takes a frame to send (a heartbeat on its ticker, a reply or
\* a push handed to the agent) and calls conn.Write
WriterBegin(c) ==
    /\ Alive /\ writer[c] = "idle" /\ connOpen[c] /\ wframes[c] < MaxFrames
    /\ writer' = [writer EXCEPT ![c] = "writing"]
    /\ wframes' = [wframes EXCEPT ![c] = @ + 1]
    /\ UNCHANGED <<regVars, cfgVars, connVars, loopVars, execVars, crash>>

\* the conn.Write of agent.write returns
WriterEnd(c) ==
    /\ Alive /\ writer[c] = "writing"
    /\ writer' = [writer EXCEPT ![c] = "idle"]
    /\ UNCHANGED <<regVars, cfgVars, wframes, connVars, loopVars, execVars, crash>>

\* agent.write returns once the agent is closed
WriterExit(c) ==
    /\ Alive /\ writer[c] = "idle" /\ status[c] = statusClosed
    /\ writer' = [writer EXCEPT ![c] = "exited"]
    /\ UNCHANGED <<regVars, cfgVars, wframes, connVars, loopVars, execVars, crash>>

\* ----------------------------------------------------------- dispatch loop
\* dispatch, lines 159-163: whether the dequeued WorkItem is handed to pcall
spawns(m, st) == st[m.agent] # statusClosed

\* DispatchWork on a channel that serves a blocked sender ahead of its buffer
DispatchWorkUnordered ==
    /\ Alive /\ dispatching /\ chLocalOpen
    /\ \E c \in Conns :
          /\ rpc[c] = "send"
          /\ rpc' = [rpc EXCEPT ![c] = "run"]
          /\ lastAt' = [lastAt EXCEPT ![c] = sending[c].seq]
          /\ sending' = [sending EXCEPT ![c] = NoItem]
          /\ enqueued' = enqueued \cup {sending[c]}
          /\ IF spawns(sending[c], status)
             THEN /\ lastMid' = [lastMid EXCEPT ![c] = sending[c].lastMid]
                  /\ running' = running \cup {sending[c]}
                  /\ executed' = executed \cup {sending[c]}
                  /\ UNCHANGED skipped
             ELSE /\ skipped' = skipped \cup {sending[c]}
                  /\ UNCHANGED <<lastMid, running, executed>>
    /\ UNCHANGED <<regVars, cfgVars, writeVars, status, sessAuth, connOpen,
                   pending, cur, hrdWrites, kicks, arrived, lastAccess, loopVars,
                   faults, responses, cbCalls, produced, rejected, histVars, crash>>

\* DispatchWork as a loop that calls the handler itself and waits for it
DispatchWorkInline ==
    /\ Alive /\ dispatching /\ chLocalProcess # <<>> /\ running = {}
    /\ LET m == Head(chLocalProcess)
       IN /\ chLocalProcess' = Tail(chLocalProcess)
          /\ IF spawns(m, status)
             THEN /\ lastMid' = [lastMid EXCEPT ![m.agent] = m.lastMid]
                  /\ running' = running \cup {m}
                  /\ executed' = executed \cup {m}
                  /\ UNCHANGED skipped
             ELSE /\ skipped' = skipped \cup {m}
                  /\ UNCHANGED <<lastMid, running, executed>>
    /\ UNCHANGED <<regVars, cfgVars, writeVars, status, sessAuth, lastAt, connOpen,
                   rpc, pending, cur, sending, hrdWrites, kicks, arrived,
                   lastAccess, chLocalOpen, chCloseSession, chCloseOpen, notified,
                   dispVars, budget, faults, responses, cbCalls, enqueued,
                   produced, rejected, histVars, crash>>

DispatchWork ==
    /\ Alive /\ dispatching /\ chLocalProcess # <<>>
    /\ LET m == Head(chLocalProcess)
       IN /\ chLocalProcess' = Tail(chLocalProcess)
          /\ IF spawns(m, status)
             THEN /\ lastMid' = [lastMid EXCEPT ![m.agent] = m.lastMid]
                  /\ running' = running \cup {m}
                  /\ executed' = executed \cup {m}
                  /\ UNCHANGED skipped
             ELSE /\ skipped' = skipped \cup {m}
                  /\ UNCHANGED <<lastMid, running, executed>>
    /\ UNCHANGED <<regVars, cfgVars, writeVars, status, sessAuth, lastAt, connOpen, rpc,
                   pending, cur, sending, hrdWrites, kicks, arrived, lastAccess,
                   chLocalOpen, chCloseSession, chCloseOpen, notified, die,
                   dispatching, tick, tickerOn, chCreatedTimer, chClosingTimer,
                   timers, admin, faults, responses, cbCalls, enqueued, produced,
                   rejected, histVars, crash, budget>>

\* onSessionClosed (lines 127-145): the callbacks run in order; the one at
\* index f raises a fault (f = 0: none does), which the deferred recover
\* catches after the loop has been left
onSessionClosed(s, f) ==
    {<<s, Callbacks[i]>> : i \in 1..(IF f = 0 THEN Len(Callbacks) ELSE f)}

\* dispatch, lines 165-166
DispatchCloseSession ==
    /\ Alive /\ dispatching /\ chCloseSession # <<>>
    /\ chCloseSession' = Tail(chCloseSession)
    /\ \E f \in 0..Len(Callbacks) :
          cbCalls' = cbCalls \cup onSessionClosed(Head(chCloseSession), f)
    /\ UNCHANGED <<regVars, cfgVars, writeVars, connVars, chLocalProcess, chLocalOpen,
                   chCloseOpen, notified, die, dispatching, tick, tickerOn,
                   chCreatedTimer, chClosingTimer, timers, admin, running, executed,
                   skipped, faults, responses, enqueued, produced, rejected, histVars, crash, budget>>

\* dispatch, lines 168-169
DispatchCron ==
    /\ Alive /\ dispatching /\ tick
    /\ tick' = FALSE
    /\ UNCHANGED <<regVars, cfgVars, writeVars, connVars, chLocalProcess, chLocalOpen,
                   chCloseSession, chCloseOpen, notified, die, dispatching, tickerOn,
                   chCreatedTimer, chClosingTimer, timers, admin, execVars, crash, budget>>

\* dispatch, lines 171-172
DispatchTimerCreated ==
    /\ Alive /\ dispatching /\ chCreatedTimer # <<>>
    /\ timers' = timers \cup {Head(chCreatedTimer)}
    /\ chCreatedTimer' = Tail(chCreatedTimer)
    /\ UNCHANGED <<regVars, cfgVars, writeVars, connVars, chLocalProcess, chLocalOpen,
                   chCloseSession, chCloseOpen, notified, die, dispatching, tick,
                   tickerOn, chClosingTimer, admin, execVars, crash, budget>>

\* dispatch, lines 174-175
DispatchTimerClosing ==
    /\ Alive /\ dispatching /\ chClosingTimer # <<>>
    /\ timers' = timers \ {Head(chClosingTimer)}
    /\ chClosingTimer' = Tail(chClosingTimer)
    /\ UNCHANGED <<regVars, cfgVars, writeVars, connVars, chLocalProcess, chLocalOpen,
                   chCloseSession, chCloseOpen, notified, die, dispatching, tick,
                   tickerOn, chCreatedTimer, admin, execVars, crash, budget>>

\* DispatchDie as a shutdown that hands the queued WorkItems to handlers
DispatchDieDraining ==
    /\ Alive /\ dispatching /\ die
    /\ dispatching' = FALSE
    /\ chLocalOpen' = FALSE
    /\ chCloseOpen' = FALSE
    /\ tickerOn' = FALSE
    /\ chLocalProcess' = <<>>
    /\ running' = running \cup {chLocalProcess[i] : i \in DOMAIN chLocalProcess}
    /\ executed' = executed \cup {chLocalProcess[i] : i \in DOMAIN chLocalProcess}
    /\ UNCHANGED <<regVars, cfgVars, writeVars, connVars, chCloseSession, notified, die, tick,
                   chCreatedTimer, chClosingTimer, timers, admin, budget, skipped,
                   faults, responses, cbCalls, enqueued, produced, rejected, histVars,
                   crash>>

\* dispatch, lines 177-178 and the deferred function of lines 150-154
DispatchDie ==
    /\ Alive /\ dispatching /\ die
    /\ dispatching' = FALSE
    /\ chLocalOpen' = FALSE
    /\ chCloseOpen' = FALSE
    /\ tickerOn' = FALSE
    /\ UNCHANGED <<regVars, cfgVars, writeVars, connVars, chLocalProcess, chCloseSession,
                   notified, die, tick, chCreatedTimer, chClosingTimer, timers, admin,
                   execVars, crash, budget>>

\* ------------------------------------------------------------- environment
\* the application closes env.die
Shutdown ==
    /\ Alive /\ ~die
    /\ die' = TRUE
    /\ atSignal' = {chLocalProcess[i] : i \in DOMAIN chLocalProcess}
    /\ UNCHANGED <<regVars, cfgVars, writeVars, connVars, chanVars, dispatching, tick, tickerOn,
                   chCreatedTimer, chClosingTimer, timers, admin, budget, running,
                   executed, skipped, faults, responses, cbCalls, enqueued, produced,
                   rejected, acked, dropped, crash>>

\* globalTicker delivers a tick (its channel holds one)
Tick ==
    /\ Alive /\ tickerOn /\ ~tick /\ admin < MaxAdmin
    /\ tick' = TRUE
    /\ admin' = admin + 1
    /\ UNCHANGED <<regVars, cfgVars, writeVars, connVars, chLocalProcess, chLocalOpen,
                   chCloseSession, chCloseOpen, notified, die, dispatching, tickerOn,
                   chCreatedTimer, chClosingTimer, timers, execVars, crash, budget>>

\* a timer is created: its identity goes to timerManager.chCreatedTimer
TimerCreated(id) ==
    /\ Alive /\ admin < MaxAdmin /\ chCreatedTimer = <<>>
    /\ chCreatedTimer' = <<id>>
    /\ admin' = admin + 1
    /\ UNCHANGED <<regVars, cfgVars, writeVars, connVars, chLocalProcess, chLocalOpen,
                   chCloseSession, chCloseOpen, notified, die, dispatching, tick,
                   tickerOn, chClosingTimer, timers, execVars, crash, budget>>

\* a timer is stopped: its identity goes to timerManager.chClosingTimer
TimerClosing(id) ==
    /\ Alive /\ admin < MaxAdmin /\ chClosingTimer = <<>>
    /\ chClosingTimer' = <<id>>
    /\ admin' = admin + 1
    /\ UNCHANGED <<regVars, cfgVars, writeVars, connVars, chLocalProcess, chLocalOpen,
                   chCloseSession, chCloseOpen, notified, die, dispatching, tick,
                   tickerOn, chCreatedTimer, timers, execVars, crash, budget>>

\* the session of a closed agent is posted on chCloseSession
NotifySessionClosed(c) ==
    /\ Alive /\ status[c] = statusClosed /\ c \notin notified /\ chCloseOpen
    /\ LET s == chanSend(chCloseSession, c)
       IN /\ s.ok
          /\ chCloseSession' = s.q
    /\ notified' = notified \cup {c}
    /\ UNCHANGED <<regVars, cfgVars, writeVars, connVars, chLocalProcess, chLocalOpen,
                   chCloseOpen, die, dispatching, tick, tickerOn, chCreatedTimer,
                   chClosingTimer, timers, admin, execVars, crash, budget>>

\* ------------------------------------------------------ handler executions
\* replyId as a reply that reads agent.lastMid when the handler responds
replyIdFromAgent(m, lm) == lm[m.agent]

\* the id a WorkItem's response function replies with (line 353: the
\* closure's own lastMid)
replyId(m, lm) == m.args[Len(m.args)].mid

hasResFunc(m) == \E i \in DOMAIN m.args : m.args[i].kind = "resFunc"

\* the handler of a running WorkItem calls its response function
Respond(m) ==
    /\ Alive /\ m \in running /\ hasResFunc(m)
    /\ \A r \in responses : ~(r.agent = m.agent /\ r.seq = m.seq)
    /\ responses' = responses \cup
          {[agent |-> m.agent, mid |-> replyId(m, lastMid), seq |-> m.seq]}
    /\ UNCHANGED <<regVars, cfgVars, writeVars, connVars, loopVars, running, executed,
                   skipped, faults, cbCalls, enqueued, produced, rejected, histVars, crash>>

\* pcall without its deferred recover
pcallUnprotected(faulted, cr) == IF faulted THEN "handler fault" ELSE cr

\* pcall (lines 112-125): what a fault raised by the handler does to the
\* process; the deferred recover swallows it
pcall(faulted, cr) == cr

\* the handler returns; pcall returns
HandlerReturn(m) ==
    /\ Alive /\ m \in running
    /\ running' = running \ {m}
    /\ crash' = pcall(FALSE, crash)
    /\ UNCHANGED <<regVars, cfgVars, writeVars, connVars, loopVars, executed, skipped,
                   faults, responses, cbCalls, enqueued, produced, rejected, histVars>>

\* the handler raises a runtime fault inside pcall
HandlerFault(m) ==
    /\ Alive /\ m \in running
    /\ running' = running \ {m}
    /\ faults' = faults \cup {m}
    /\ crash' = pcall(TRUE, crash)
    /\ UNCHANGED <<regVars, cfgVars, writeVars, connVars, loopVars, executed, skipped,
                   responses, cbCalls, enqueued, produced, rejected, histVars>>

\* --------------------------------------------------------- specifications
\* the readers, the router, the dispatch of work, the handler executions
\* and shutdown
NextConn ==
    \/ \E c \in Conns : Read(c)
    \/ \E c \in Conns : ReadError(c)
    \/ \E c \in Conns : ProcessPacket(c)
    \/ \E c \in Conns : Enqueue(c)
    \/ \E c \in Conns : SendOnClosed(c)
    \/ \E c \in Conns : ExplicitClose(c)
    \/ DispatchWork
    \/ DispatchDie
    \/ Shutdown
    \/ \E m \in running : Respond(m)
    \/ \E m \in running : HandlerReturn(m)
    \/ \E m \in running : HandlerFault(m)

\* the closed-session, ticker and timer notifications
NextAdmin ==
    \/ \E c \in Conns : NotifySessionClosed(c)
    \/ DispatchCloseSession
    \/ DispatchCron
    \/ DispatchTimerCreated
    \/ DispatchTimerClosing
    \/ Tick
    \/ \E id \in TimerIds : TimerCreated(id)
    \/ \E id \in TimerIds : TimerClosing(id)

Next == NextConn \/ NextAdmin

\* the whole core
Spec == Init /\ [][Next]_vars

\* the core without the closed-session, ticker and timer notifications,
\* which touch no state the readers, the router, the dispatch of work or the
\* handler executions read
SpecConn == InitConn /\ [][NextConn]_vars

\* the core while the application runs (env.die is not closed), with the
\* scheduling the Go runtime gives: select takes every case that stays ready
\* sooner or later, and a send proceeds once the channel has room
NextLive ==
    \/ \E c \in Conns : Read(c)
    \/ \E c \in Conns : ReadError(c)
    \/ \E c \in Conns : ProcessPacket(c)
    \/ \E c \in Conns : Enqueue(c)
    \/ DispatchWork
    \/ \E m \in running : HandlerReturn(m)
    \/ \E m \in running : HandlerFault(m)
    \/ NextAdmin

SpecLive ==
    /\ InitConn /\ [][NextLive]_vars
    /\ WF_vars(DispatchWork)
    /\ \A c \in Conns : WF_vars(Enqueue(c))

\* the two goroutines of a connection: the reader with its state machine and
\* the write worker
InitWrite == InitServer /\ budget = MaxLoopPackets /\ InitQueue(<<>>)

NextWrite ==
    \/ \E c \in Conns : Read(c)
    \/ \E c \in Conns : ReadError(c)
    \/ \E c \in Conns : ProcessPacket(c)
    \/ \E c \in Conns : Enqueue(c)
    \/ \E c \in Conns : ExplicitClose(c)
    \/ \E c \in Conns : WriterBegin(c)
    \/ \E c \in Conns : WriterEnd(c)
    \/ \E c \in Conns : WriterExit(c)

SpecWrite == InitWrite /\ [][NextWrite]_vars

\* the registry during startup: components are registered one after another,
\* before any connection is served; the components registered before the
\* ones named here have brought no route, or all but two of the routes the
\* alias type can number
InitRegistry ==
    /\ services = EmptyRegistry.services
    /\ handlers = EmptyRegistry.handlers
    /\ dict = EmptyRegistry.dict
    /\ dictMore \in {EmptyRegistry.more, MaxUint16 - 1}
    /\ codecDict = EmptyRegistry.codec
    /\ regResult = EmptyRegistry.result
    /\ regCall = NoComponent
    /\ authEnabled = FALSE
    /\ InitConns /\ InitLoop /\ InitExec /\ InitQueue(<<>>)
    /\ budget = 0

\* a call of handlerService.register
Register(comp) ==
    /\ \E order \in Orders(comp.methods) : SetRegistry(register(Registry, comp, order))
    /\ regCall' = comp
    /\ UNCHANGED <<cfgVars, writeVars, connVars, loopVars, execVars, crash>>

NextRegistry == \E comp \in Components : Register(comp)

SpecRegistry == InitRegistry /\ [][NextRegistry]_vars

\* ================================================================ properties
\* the step hands a packet of connection c to processPacket
Processes(c) == cur'[c].seq # cur[c].seq
Queue == {chLocalProcess[i] : i \in DOMAIN chLocalProcess}
ResFuncs(m) == {i \in DOMAIN m.args : m.args[i].kind = "resFunc"}

\* C1: a Data packet processed on a connection that has had no HandshakeAck
\* fails the connection: the reader stops, the Agent is closed, no WorkItem
\* is built for the packet and no handler has executed for the connection.
DataBeforeAckFailsConnection ==
    [][\A c \in Conns :
          (Processes(c) /\ cur'[c].pkt.type = "Data" /\ c \notin acked)
          => /\ rpc'[c] = "exited"
             /\ status'[c] = statusClosed
             /\ produced' = produced
             /\ \A m \in executed' : m.agent # c]_vars

\* C2: processing an accepted Handshake (no auth callback, or the callback
\* accepts) on an open transport writes the handshake response exactly once
\* and leaves the Agent in Handshake-Ack-Pending.
AcceptedHandshakeWritesOnceAndAwaitsAck ==
    [][\A c \in Conns :
          (/\ Processes(c) /\ cur'[c].pkt.type = "Handshake"
           /\ (~authEnabled \/ ~authFunc(cur'[c].pkt))
           /\ connOpen[c])
          => /\ hrdWrites'[c] = hrdWrites[c] + 1
             /\ status'[c] = statusHandshake]_vars

\* C3: a Handshake the auth callback rejects writes no handshake response
\* and does not advance the phase, and after it the reader processes no
\* further packet of the connection, builds no WorkItem and no handler is
\* spawned for it.
RejectedHandshakeTerminates ==
    [][\A c \in Conns :
          /\ (Processes(c) /\ cur'[c].pkt.type = "Handshake"
                /\ authEnabled /\ authFunc(cur'[c].pkt))
             => /\ hrdWrites'[c] = hrdWrites[c]
                /\ status'[c] \in {status[c], statusClosed}
          /\ c \in rejected
             => /\ ~Processes(c)
                /\ \A m \in produced' \ produced : m.agent # c
                /\ \A m \in executed' \ executed : m.agent # c]_vars

\* C4: a WorkItem built from a Notify carries no response function, one built
\* from a Request carries exactly one, and every reply sent through it bears
\* the id of that Request, whatever agent.lastMid has become meanwhile.
ResponseBoundToRequest ==
    /\ \A m \in produced :
          /\ m.from.mtype = "Notify" => ResFuncs(m) = {}
          /\ m.from.mtype = "Request" => Cardinality(ResFuncs(m)) = 1
    /\ \A r \in responses :
          \E m \in produced :
             /\ m.agent = r.agent /\ m.seq = r.seq
             /\ m.from.mtype = "Request" /\ r.mid = m.from.id

\* C4 witness: a reply was sent after a later WorkItem overwrote agent.lastMid
RepliedAfterLastMidOverwritten ==
    \E r \in responses : lastMid[r.agent] # r.mid /\ lastMid[r.agent] # 0

\* C5: the pending-work channel never holds more than packetBacklog items,
\* and every WorkItem processMessage built is still held by its blocked
\* reader, is in the channel, or was dequeued by the dispatch loop.
BackpressureNeverDrops ==
    /\ Len(chLocalProcess) <= packetBacklog
    /\ \A m \in produced :
          \/ (rpc[m.agent] \in {"send", "panicked"} /\ sending[m.agent] = m)
          \/ m \in Queue
          \/ m \in executed \cup skipped
    /\ \A c \in Conns :
          (rpc[c] = "send" /\ chLocalOpen /\ Len(chLocalProcess) >= packetBacklog)
          => ~ENABLED Enqueue(c)

\* C5 witness: a reader is blocked in its send on the full channel
ReaderBlockedOnFullChannel ==
    \E c \in Conns :
       /\ rpc[c] = "send" /\ chLocalOpen /\ Len(chLocalProcess) = packetBacklog
       /\ sending[c] \in produced

Refused(msg) ==
    \/ msg.route \notin DOMAIN handlers
    \/ msg.payload = "badpipe"
    \/ msg.payload = "baddeser" /\ ~handlers[msg.route].IsRawArg

\* C7: a refused Data message at a Working agent is dropped: no WorkItem, no
\* response, the connection open, the phase and the reader as they were; and
\* the next acceptable message of the connection is built into a WorkItem
\* and sent.
RefusedMessageIsDropped ==
    [][\A c \in Conns :
          (/\ Processes(c) /\ cur'[c].pkt.type = "Data" /\ cur'[c].pkt.msg.decodable
           /\ status[c] = statusWorking)
          => IF Refused(cur'[c].pkt.msg)
             THEN /\ produced' = produced /\ responses' = responses
                  /\ chLocalProcess' = chLocalProcess
                  /\ status'[c] = statusWorking /\ connOpen'[c] = connOpen[c]
                  /\ rpc'[c] = "run"
             ELSE /\ rpc'[c] = "send"
                  /\ sending'[c].seq = cur'[c].seq /\ sending'[c].from = cur'[c].pkt.msg
                  /\ produced' = produced \cup {sending'[c]}]_vars

\* C7 witness: a message was dropped and the next one of the connection is
\* in the pending-work channel
NextMessageRoutedAfterDrop ==
    \E d \in dropped, m \in Queue :
       m.agent = d[1] /\ m.seq = d[2] + 1 /\ status[d[1]] = statusWorking

\* C8 (as stated): no WorkItem that was queued when the shutdown signal fired
\* is ever executed.
QueuedAtSignalNeverExecuted == \A m \in atSignal : m \notin executed

\* C8 (amended): when the dispatch loop exits it closes both channels and
\* executes nothing, and from then on the WorkItems left in the pending-work
\* channel stay there and none is executed.
QueuedAtExitNeverExecuted ==
    [][/\ ~dispatching'
          => /\ ~chLocalOpen' /\ ~chCloseOpen'
             /\ chLocalProcess' = chLocalProcess
             /\ executed' = executed /\ running' \subseteq running
       /\ ~dispatching => ~dispatching']_vars

\* C8 witness: the loop has exited with WorkItems in the pending-work channel
\* that were there when the signal fired
ExitedWithQueuedItems ==
    /\ ~dispatching /\ chLocalProcess # <<>>
    /\ \E m \in Queue : m \in atSignal /\ m \notin executed

\* C9: no runtime fault occurs outside a recovery boundary.
NoFaultOutsideRecovery == crash = "none"

\* C10: a register call for a service name already registered fails with the
\* duplicate-service error; a call that fails leaves services, handlers, the
\* alias dictionary and the codec's dictionary as they were, and a call that
\* succeeds adds every handler of the component.
DuplicateRegisterIsAtomic ==
    [][LET comp == regCall'
       IN /\ comp.name \in DOMAIN services => regResult' = "duplicate-service"
          /\ regResult' # "ok" => UNCHANGED <<services, handlers, dict, codecDict>>
          /\ regResult' = "ok"
             => /\ comp.name \in DOMAIN services'
                /\ \A m \in comp.methods :
                      fullName(comp.name, m) \in DOMAIN handlers' \cap DOMAIN dict']_vars

\* C10 witness: a component with other handlers than the registered one of
\* the same name was refused
DuplicateRefused ==
    /\ regResult = "duplicate-service"
    /\ regCall.name \in DOMAIN services
    /\ regCall.extractable /\ regCall.methods # services[regCall.name]

\* C11: processing a Heartbeat at a Working agent leaves the phase Working and
\* changes nothing but the last-activity timestamp: no frame is written, no
\* WorkItem is built or enqueued, no session flag changes and the reader goes
\* on; this holds at every Heartbeat, so for any number of them in a row.
HeartbeatOnlyRefreshesLastAt ==
    [][\A c \in Conns :
          (/\ Processes(c) /\ cur'[c].pkt.type = "Heartbeat"
           /\ status[c] = statusWorking)
          => /\ status'[c] = statusWorking
             /\ lastAt'[c] = cur'[c].seq
             /\ rpc'[c] = "run"
             /\ UNCHANGED <<sessAuth, connOpen, hrdWrites, kicks, lastMid,
                            lastAccess, sending>>
             /\ UNCHANGED <<chLocalProcess, produced, enqueued, executed,
                            responses, rejected, dropped>>]_vars

\* C11 witness: a Heartbeat was processed at a Working agent as the second
\* packet after the handshake, and only the timestamp shows it
HeartbeatProcessedWhileWorking ==
    \E c \in Conns :
       /\ cur[c].pkt.type = "Heartbeat" /\ cur[c].seq = 2
       /\ status[c] = statusWorking /\ lastAt[c] = 2 /\ rpc[c] = "run"
       /\ produced = {} /\ dropped = {}

\* C12: at most one goroutine writes to a connection's transport at a time:
\* the reader's state machine never writes a frame (the handshake response)
\* while the connection's write worker is inside its own write.
SingleTransportWriter ==
    [][\A c \in Conns :
          hrdWrites'[c] # hrdWrites[c] => writer[c] # "writing"]_vars

\* C13: a WorkItem the dispatch loop dequeues is handed to a handler
\* execution, also when its Agent was closed after the item was enqueued.
EnqueuedWorkSurvivesClose ==
    [][(dispatching /\ chLocalProcess # <<>>
          /\ chLocalProcess' = Tail(chLocalProcess))
       => Head(chLocalProcess) \in executed']_vars

ClosedIsTerminal ==
    [][/\ \A c \in Conns : status[c] = statusClosed => status'[c] = statusClosed
       /\ \A m \in executed' \ executed : status[m.agent] # statusClosed]_vars

\* C17: when the dispatch loop takes a session from the session-close
\* channel, every registered close callback has been invoked for it when the
\* step is over, whether or not a callback raised a fault, and the loop and
\* the process go on.
AllCloseCallbacksRun ==
    [][(dispatching /\ chCloseSession # <<>>
          /\ chCloseSession' = Tail(chCloseSession))
       => /\ \A i \in DOMAIN Callbacks :
                <<Head(chCloseSession), Callbacks[i]>> \in cbCalls'
          /\ dispatching' /\ crash' = crash]_vars

\* C18: an agent becomes Working only from Handshake-Ack-Pending, and a
\* handler is executed for a connection only if a Handshake of the
\* connection was accepted (its response was written) and the session's
\* authenticated flag is set.
ExecutionRequiresAcceptedHandshake ==
    [][/\ \A c \in Conns :
             (status'[c] = statusWorking /\ status[c] # statusWorking)
             => status[c] = statusHandshake
       /\ \A m \in executed' :
             hrdWrites'[m.agent] > 0 /\ sessAuth'[m.agent]]_vars

\* C19: the phase never moves backwards among Start, Handshake-Ack-Pending
\* and Working, and a decodable Data packet on a connection that has had its
\* HandshakeAck and is not closed does not end the reader.
PhaseNeverMovesBack ==
    [][\A c \in Conns :
          /\ (status[c] # statusClosed /\ status'[c] # statusClosed)
             => status'[c] >= status[c]
          /\ (/\ Processes(c) /\ cur'[c].pkt.type = "Data"
              /\ cur'[c].pkt.msg.decodable
              /\ c \in acked /\ status[c] # statusClosed)
             => rpc'[c] # "exited"]_vars

AliasesAreOneToN ==
    [][/\ \A r \in DOMAIN dict : r \in DOMAIN dict' /\ dict'[r] = dict[r]
       /\ DOMAIN dict' = DOMAIN handlers'
       /\ {dict'[r] : r \in DOMAIN dict'}
             = (dictMore' + 1)..(dictMore' + Cardinality(DOMAIN dict'))
       /\ Cardinality({dict'[r] : r \in DOMAIN dict'}) = Cardinality(DOMAIN dict')
       /\ regResult' = "ok" => codecDict' = dict']_vars
====
